---- MODULE Spec2Model ----
(***************************************************************************)
(* Model of languages/python/starters/python3.py: a top-level script that  *)
(* runs five demonstrations in sequence (recursive fib, a list             *)
(* comprehension, a class, a dict comprehension, filter with a lambda) and *)
(* writes one line per demonstration to standard output.                   *)
(*                                                                         *)
(* The script is modelled statement by statement.  pc is the line the      *)
(* interpreter is at; fib runs on an explicit call stack; comprehensions   *)
(* and filter run one element per step into a temporary that is bound to   *)
(* its name only when the loop is over, as the interpreter does.           *)
(***************************************************************************)
EXTENDS Integers, Sequences, FiniteSets, TLC

VARIABLES
    pc,        \* line of the script the interpreter is at, "done" after line 32
    fibArg,    \* <<n>> once fib(n) has been called at line 7, else <<>>
    stack,     \* active frames of fib, outermost first
    ret,       \* <<v>> once the outermost call of fib has returned v, else <<>>
    numbers,   \* value of the name numbers (line 10)
    doubled,   \* value of the name doubled (line 11)
    ctorArgs,  \* <<[name, age]>>, the parameters of __init__, once User is called
    user,      \* attributes of the User object, by name
    greeting,  \* <<s>> once user.greet() has returned s, else <<>>
    squares,   \* value of the name squares: <<key, value>> pairs in insertion order
    evens,     \* value of the name evens (line 31)
    it,        \* position of the running comprehension / filter iterator
    acc,       \* list under construction by the running comprehension / filter
    dacc,      \* dict under construction by the running dict comprehension
    bound,     \* names of the module namespace that are bound
    out        \* lines written to standard output, in order

vars == <<pc, fibArg, stack, ret, numbers, doubled, ctorArgs, user, greeting,
          squares, evens, it, acc, dacc, bound, out>>

---------------------------------------------------------------------------
(* Bounds of the inputs the general specifications draw from.              *)

\* fib is called with every operand in -MaxNeg .. MaxArg
MaxArg == 10
MaxNeg == 3
\* stand-in for the interpreter's recursion limit (stack exhaustion)
MaxDepth == 15
\* input sequences have at most MaxLen elements, each in -MaxElem .. MaxElem
MaxLen == 3
MaxElem == 2
\* constructor names have at most MaxNameLen letters, ages are in -MaxAge .. MaxAge
MaxNameLen == 2
MaxAge == 2

---------------------------------------------------------------------------
(* Literals of the script.                                                 *)

\* line 7: fib(10)
FibArg == 10
\* line 10: numbers = [1, 2, 3, 4, 5]
Numbers == <<1, 2, 3, 4, 5>>
\* line 23: User("Nina", 25)
UserName == "Nina"
UserAge == 25
\* line 27: range(1, 6)
RangeStart == 1
RangeStop == 6

---------------------------------------------------------------------------
(* Text conversions: str() of an integer, repr() of a list and of a dict,  *)
(* and the line print() writes for its operands.                           *)

Digit(d) ==
    CASE d = 0 -> "0" [] d = 1 -> "1" [] d = 2 -> "2" [] d = 3 -> "3"
      [] d = 4 -> "4" [] d = 5 -> "5" [] d = 6 -> "6" [] d = 7 -> "7"
      [] d = 8 -> "8" [] d = 9 -> "9"

RECURSIVE NatStr(_)
NatStr(n) ==
    IF n < 10 THEN Digit(n) ELSE NatStr(n \div 10) \o Digit(n % 10)

\* str(i) for an int
IntStr(i) ==
    IF i < 0 THEN "-" \o NatStr(-i) ELSE NatStr(i)

\* sep.join(parts)
RECURSIVE Join(_, _)
Join(parts, sep) ==
    IF Len(parts) = 0 THEN ""
    ELSE IF Len(parts) = 1 THEN parts[1]
    ELSE parts[1] \o sep \o Join(Tail(parts), sep)

\* repr of a list of ints: "[a, b, c]"
ListRepr(s) ==
    "[" \o Join([i \in 1..Len(s) |-> IntStr(s[i])], ", ") \o "]"

\* repr of a dict of ints: "{k: v, k: v}", in insertion order
DictRepr(d) ==
    "{" \o Join([i \in 1..Len(d) |-> IntStr(d[i][1]) \o ": " \o IntStr(d[i][2])], ", ")
        \o "}"

\* print(a, b, ...): the operands' texts separated by one space
OutputLineNoSep(parts) ==
    Join(parts, "")

OutputLine(parts) ==
    Join(parts, " ")

---------------------------------------------------------------------------
(* fib (lines 2-5) on an explicit call stack.  A frame is at "L3" (the     *)
(* test), "L4" (return n), "L5a" (about to call fib(n - 1)), "L5w1"       *)
(* (waiting for it), "L5b" (about to call fib(n - 2)), "L5w2" (waiting for *)
(* it) or "L5c" (about to return the sum).                                 *)

Frame(n) == [n |-> n, at |-> "L3", a |-> 0, b |-> 0]

\* line 3: if n <= 1
IsBaseCaseStrict(n) == n < 1

IsBaseCaseExact(n) == n = 0 \/ n = 1

IsBaseCaseOne(n) == n = 1

IsBaseCase(n) == n <= 1

\* line 5: the operands of the two recursive calls
FirstOperand(n) == n - 1

SecondOperandOff(n) == n - 3

SecondOperand(n) == n - 2

Top == stack[Len(stack)]

SetTop(f) == [stack EXCEPT ![Len(stack)] = f]

Pop == SubSeq(stack, 1, Len(stack) - 1)

\* the stack and ret after the top frame returns v to its caller
Deliver(v) ==
    IF Len(stack) = 1
    THEN /\ stack' = <<>>
         /\ ret' = <<v>>
    ELSE LET caller == stack[Len(stack) - 1]
             resumed == IF caller.at = "L5w1"
                        THEN [caller EXCEPT !.a = v, !.at = "L5b"]
                        ELSE [caller EXCEPT !.b = v, !.at = "L5c"]
         IN /\ stack' = [Pop EXCEPT ![Len(stack) - 1] = resumed]
            /\ ret' = ret

\* the stack after the top frame, moved to `waiting`, calls fib(n); a call
\* beyond the recursion limit raises and the error is not caught
CallFib(n, waiting) ==
    IF Len(stack) < MaxDepth
    THEN /\ stack' = Append(SetTop([Top EXCEPT !.at = waiting]), Frame(n))
         /\ pc' = pc
    ELSE /\ stack' = stack
         /\ pc' = "error"

FibFrameVars == <<fibArg, numbers, doubled, ctorArgs, user, greeting, squares,
                  evens, it, acc, dacc, bound, out>>

\* line 7: the call fib(10) of the f-string
L7Call(n) ==
    /\ pc = "L7" /\ stack = <<>> /\ ret = <<>>
    /\ fibArg' = <<n>>
    /\ stack' = <<Frame(n)>>
    /\ UNCHANGED <<pc, ret, numbers, doubled, ctorArgs, user, greeting, squares,
                   evens, it, acc, dacc, bound, out>>

FibTest ==
    /\ pc = "L7" /\ stack # <<>> /\ Top.at = "L3"
    /\ stack' = SetTop([Top EXCEPT !.at = IF IsBaseCase(Top.n) THEN "L4" ELSE "L5a"])
    /\ UNCHANGED <<pc, ret>>
    /\ UNCHANGED FibFrameVars

FibReturnN ==
    /\ pc = "L7" /\ stack # <<>> /\ Top.at = "L4"
    /\ Deliver(Top.n)
    /\ UNCHANGED pc
    /\ UNCHANGED FibFrameVars

FibCallFirst ==
    /\ pc = "L7" /\ stack # <<>> /\ Top.at = "L5a"
    /\ CallFib(FirstOperand(Top.n), "L5w1")
    /\ UNCHANGED ret
    /\ UNCHANGED FibFrameVars

FibCallSecond ==
    /\ pc = "L7" /\ stack # <<>> /\ Top.at = "L5b"
    /\ CallFib(SecondOperand(Top.n), "L5w2")
    /\ UNCHANGED ret
    /\ UNCHANGED FibFrameVars

FibReturnSum ==
    /\ pc = "L7" /\ stack # <<>> /\ Top.at = "L5c"
    /\ Deliver(Top.a + Top.b)
    /\ UNCHANGED pc
    /\ UNCHANGED FibFrameVars

\* line 7: print(f"fib(10) = {fib(10)}"), once the call has returned
L7Write ==
    /\ pc = "L7" /\ stack = <<>> /\ ret # <<>>
    /\ out' = Append(out, OutputLine(<<"fib(10) = " \o IntStr(ret[1])>>))
    /\ pc' = "L10"
    /\ UNCHANGED <<fibArg, stack, ret, numbers, doubled, ctorArgs, user,
                   greeting, squares, evens, it, acc, dacc, bound>>

---------------------------------------------------------------------------
(* Lines 10-12: the list and the list comprehension.                       *)

\* line 11: n * 2
DoublePlus(n) == n + 2

Double(n) == n * 2

\* line 10: numbers = [1, 2, 3, 4, 5], the list display evaluating to lit
L10(lit) ==
    /\ pc = "L10"
    /\ numbers' = lit
    /\ bound' = bound \cup {"numbers"}
    /\ pc' = "L11"
    /\ UNCHANGED <<fibArg, stack, ret, doubled, ctorArgs, user, greeting,
                   squares, evens, it, acc, dacc, out>>

\* line 11: the comprehension takes an iterator on numbers and an empty list
L11Start ==
    /\ pc = "L11"
    /\ it' = 1
    /\ acc' = <<>>
    /\ pc' = "L11for"
    /\ UNCHANGED <<fibArg, stack, ret, numbers, doubled, ctorArgs, user,
                   greeting, squares, evens, dacc, bound, out>>

\* line 11: one element of numbers
L11Step ==
    /\ pc = "L11for" /\ it <= Len(numbers)
    /\ acc' = Append(acc, Double(numbers[it]))
    /\ it' = it + 1
    /\ UNCHANGED <<pc, fibArg, stack, ret, numbers, doubled, ctorArgs, user,
                   greeting, squares, evens, dacc, bound, out>>

\* line 11: the iterator is exhausted and the list is bound to doubled
L11Bind ==
    /\ pc = "L11for" /\ it > Len(numbers)
    /\ doubled' = acc
    /\ bound' = bound \cup {"doubled"}
    /\ it' = 0
    /\ acc' = <<>>
    /\ pc' = "L12"
    /\ UNCHANGED <<fibArg, stack, ret, numbers, ctorArgs, user, greeting,
                   squares, evens, dacc, out>>

\* line 12: print("Doubled:", doubled)
L12 ==
    /\ pc = "L12"
    /\ out' = Append(out, OutputLine(<<"Doubled:", ListRepr(doubled)>>))
    /\ pc' = "L23"
    /\ UNCHANGED <<fibArg, stack, ret, numbers, doubled, ctorArgs, user,
                   greeting, squares, evens, it, acc, dacc, bound>>

---------------------------------------------------------------------------
(* A dict, and an object's attributes, as <<key, value>> pairs in          *)
(* insertion order: setting a key that is present keeps its place.         *)

HasKey(d, k) == \E i \in 1..Len(d) : d[i][1] = k

DictGet(d, k) == d[CHOOSE i \in 1..Len(d) : d[i][1] = k][2]

DictSet(d, k, v) ==
    IF HasKey(d, k)
    THEN [i \in 1..Len(d) |-> IF d[i][1] = k THEN <<k, v>> ELSE d[i]]
    ELSE Append(d, <<k, v>>)

Keys(d) == [i \in 1..Len(d) |-> d[i][1]]

---------------------------------------------------------------------------
(* Lines 15-24: the class User.                                            *)

\* line 21: f"Hello, {self.name}!"
GreetAge(self) == "Hello, " \o IntStr(DictGet(self, "age")) \o "!"

Greet(self) == "Hello, " \o DictGet(self, "name") \o "!"

\* line 23: User("Nina", 25) makes an object and calls __init__ on it
L23New(name, age) ==
    /\ pc = "L23"
    /\ user' = <<>>
    /\ ctorArgs' = <<[name |-> name, age |-> age]>>
    /\ pc' = "L17"
    /\ UNCHANGED <<fibArg, stack, ret, numbers, doubled, greeting,
                   squares, evens, it, acc, dacc, bound, out>>

\* line 17: self.name = name
L17 ==
    /\ pc = "L17"
    /\ user' = DictSet(user, "name", ctorArgs[1].name)
    /\ pc' = "L18"
    /\ UNCHANGED <<fibArg, stack, ret, numbers, doubled, ctorArgs, greeting,
                   squares, evens, it, acc, dacc, bound, out>>

\* line 18: self.age = age
L18 ==
    /\ pc = "L18"
    /\ user' = DictSet(user, "age", ctorArgs[1].age)
    /\ pc' = "L23bind"
    /\ UNCHANGED <<fibArg, stack, ret, numbers, doubled, ctorArgs, greeting,
                   squares, evens, it, acc, dacc, bound, out>>

\* line 23: __init__ has returned and the object is bound to user
L23Bind ==
    /\ pc = "L23bind"
    /\ bound' = bound \cup {"user"}
    /\ pc' = "L24"
    /\ UNCHANGED <<fibArg, stack, ret, numbers, doubled, ctorArgs, user,
                   greeting, squares, evens, it, acc, dacc, out>>

\* line 24: the call user.greet()
L24Call ==
    /\ pc = "L24" /\ greeting = <<>>
    /\ greeting' = <<Greet(user)>>
    /\ UNCHANGED <<pc, fibArg, stack, ret, numbers, doubled, ctorArgs, user,
                   squares, evens, it, acc, dacc, bound, out>>

\* line 24: print(user.greet()), once the call has returned
L24Write ==
    /\ pc = "L24" /\ greeting # <<>>
    /\ out' = Append(out, OutputLine(<<greeting[1]>>))
    /\ pc' = "L27"
    /\ UNCHANGED <<fibArg, stack, ret, numbers, doubled, ctorArgs, user,
                   greeting, squares, evens, it, acc, dacc, bound>>

---------------------------------------------------------------------------
(* Lines 27-28: the dict comprehension over range(1, 6).                   *)

\* range(start, stop) yields i while i < stop
InRangeInclusive(i, stop) == i <= stop

InRange(i, stop) == i < stop

\* line 27: n**2
Square(n) == n ^ 2

\* line 27: the comprehension takes an iterator on range(1, 6) and an empty dict
L27Start ==
    /\ pc = "L27"
    /\ it' = RangeStart
    /\ dacc' = <<>>
    /\ pc' = "L27for"
    /\ UNCHANGED <<fibArg, stack, ret, numbers, doubled, ctorArgs, user,
                   greeting, squares, evens, acc, bound, out>>

\* line 27: one element of the range
L27Step ==
    /\ pc = "L27for" /\ InRange(it, RangeStop)
    /\ dacc' = DictSet(dacc, it, Square(it))
    /\ it' = it + 1
    /\ UNCHANGED <<pc, fibArg, stack, ret, numbers, doubled, ctorArgs, user,
                   greeting, squares, evens, acc, bound, out>>

\* line 27: the range is exhausted and the dict is bound to squares
L27Bind ==
    /\ pc = "L27for" /\ ~InRange(it, RangeStop)
    /\ squares' = dacc
    /\ bound' = bound \cup {"squares"}
    /\ it' = 0
    /\ dacc' = <<>>
    /\ pc' = "L28"
    /\ UNCHANGED <<fibArg, stack, ret, numbers, doubled, ctorArgs, user,
                   greeting, evens, acc, out>>

\* line 28: print("Squares:", squares)
L28 ==
    /\ pc = "L28"
    /\ out' = Append(out, OutputLine(<<"Squares:", DictRepr(squares)>>))
    /\ pc' = "L31"
    /\ UNCHANGED <<fibArg, stack, ret, numbers, doubled, ctorArgs, user,
                   greeting, squares, evens, it, acc, dacc, bound>>

---------------------------------------------------------------------------
(* Lines 31-32: filter with a lambda, collected by list().                 *)

\* line 31: lambda x: x % 2 == 0
LambdaOdd(x) == x % 2 = 1

Lambda(x) == x % 2 = 0

\* line 31: list() takes the filter iterator on numbers and an empty list
L31Start ==
    /\ pc = "L31"
    /\ it' = 1
    /\ acc' = <<>>
    /\ pc' = "L31for"
    /\ UNCHANGED <<fibArg, stack, ret, numbers, doubled, ctorArgs, user,
                   greeting, squares, evens, dacc, bound, out>>

\* line 31: the filter yields the next element if the lambda holds of it
L31StepInPlace ==
    /\ pc = "L31for" /\ it <= Len(numbers)
    /\ IF Lambda(numbers[it])
       THEN /\ acc' = Append(acc, numbers[it])
            /\ numbers' = numbers
            /\ it' = it + 1
       ELSE /\ acc' = acc
            /\ numbers' = [i \in 1..(Len(numbers) - 1) |->
                              IF i < it THEN numbers[i] ELSE numbers[i + 1]]
            /\ it' = it
    /\ UNCHANGED <<pc, fibArg, stack, ret, doubled, ctorArgs, user,
                   greeting, squares, evens, dacc, bound, out>>

L31Step ==
    /\ pc = "L31for" /\ it <= Len(numbers)
    /\ acc' = IF Lambda(numbers[it]) THEN Append(acc, numbers[it]) ELSE acc
    /\ it' = it + 1
    /\ UNCHANGED <<pc, fibArg, stack, ret, numbers, doubled, ctorArgs, user,
                   greeting, squares, evens, dacc, bound, out>>

\* line 31: the iterator is exhausted and the list is bound to evens
L31Bind ==
    /\ pc = "L31for" /\ it > Len(numbers)
    /\ evens' = acc
    /\ bound' = bound \cup {"evens"}
    /\ it' = 0
    /\ acc' = <<>>
    /\ pc' = "L32"
    /\ UNCHANGED <<fibArg, stack, ret, numbers, doubled, ctorArgs, user,
                   greeting, squares, dacc, out>>

\* line 32: print("Evens:", evens), the last statement
L32 ==
    /\ pc = "L32"
    /\ out' = Append(out, OutputLine(<<"Evens:", ListRepr(evens)>>))
    /\ pc' = "done"
    /\ UNCHANGED <<fibArg, stack, ret, numbers, doubled, ctorArgs, user,
                   greeting, squares, evens, it, acc, dacc, bound>>

---------------------------------------------------------------------------
(* The script, and the specifications.                                     *)

\* every statement but the three whose operands the specifications vary
Rest ==
    \/ FibTest
    \/ FibReturnN
    \/ FibCallFirst
    \/ FibCallSecond
    \/ FibReturnSum
    \/ L7Write
    \/ L11Start
    \/ L11Step
    \/ L11Bind
    \/ L12
    \/ L17
    \/ L18
    \/ L23Bind
    \/ L24Call
    \/ L24Write
    \/ L27Start
    \/ L27Step
    \/ L27Bind
    \/ L28
    \/ L31Start
    \/ L31Step
    \/ L31Bind
    \/ L32

\* the state before the first statement
Init ==
    /\ pc = "L7"
    /\ fibArg = <<>>
    /\ stack = <<>>
    /\ ret = <<>>
    /\ numbers = <<>>
    /\ doubled = <<>>
    /\ ctorArgs = <<>>
    /\ user = <<>>
    /\ greeting = <<>>
    /\ squares = <<>>
    /\ evens = <<>>
    /\ it = 0
    /\ acc = <<>>
    /\ dacc = <<>>
    /\ bound = {}
    /\ out = <<>>

\* the script as written
Next ==
    \/ L7Call(FibArg)
    \/ L10(Numbers)
    \/ L23New(UserName, UserAge)
    \/ Rest

Spec == Init /\ [][Next]_vars

\* a statement that can run does run: the interpreter never stops by itself
FairSpec == Spec /\ WF_vars(Next)

\* the script with fib called on every operand of the bounded range
NextFib ==
    \/ \E n \in (0 - MaxNeg)..MaxArg : L7Call(n)
    \/ L10(Numbers)
    \/ L23New(UserName, UserAge)
    \/ Rest

SpecFib == Init /\ [][NextFib]_vars

\* the script with every bounded list of integers at line 10
SeqsUpTo(S, n) == UNION {[1..k -> S] : k \in 0..n}

NextSeq ==
    \/ L7Call(FibArg)
    \/ \E lit \in SeqsUpTo((0 - MaxElem)..MaxElem, MaxLen) \cup {Numbers} : L10(lit)
    \/ L23New(UserName, UserAge)
    \/ Rest

SpecSeq == Init /\ [][NextSeq]_vars

\* the script with every bounded name and age at line 23
Letters == {"N", "a", "5"}

RECURSIVE NamesUpTo(_)
NamesUpTo(n) ==
    IF n = 0 THEN {""}
    ELSE NamesUpTo(n - 1) \cup {s \o c : s \in NamesUpTo(n - 1), c \in Letters}

NextUser ==
    \/ L7Call(FibArg)
    \/ L10(Numbers)
    \/ \E name \in NamesUpTo(MaxNameLen) \cup {UserName} :
          \E age \in (0 - MaxAge)..MaxAge \cup {UserAge} : L23New(name, age)
    \/ Rest

SpecUser == Init /\ [][NextUser]_vars

---------------------------------------------------------------------------
(* Properties of fib, checked under SpecFib.                               *)

\* the n-th Fibonacci number by its defining recurrence
RECURSIVE Fibonacci(_)
Fibonacci(n) ==
    IF n = 0 THEN 0
    ELSE IF n = 1 THEN 1
    ELSE Fibonacci(n - 1) + Fibonacci(n - 2)

\* C1: for every non-negative operand n of the range, the value fib(n) returns
\* is the n-th Fibonacci number of the recurrence fib(0) = 0, fib(1) = 1,
\* fib(n) = fib(n-1) + fib(n-2); in particular fib(0) = 0, fib(1) = 1 and
\* fib(10) = 55.
C1_FibReturnsFibonacci ==
    (fibArg # <<>> /\ fibArg[1] >= 0 /\ ret # <<>>) =>
        /\ ret = <<Fibonacci(fibArg[1])>>
        /\ (fibArg[1] = 0 => ret = <<0>>)
        /\ (fibArg[1] = 1 => ret = <<1>>)
        /\ (fibArg[1] = 10 => ret = <<55>>)

\* fib(10) has returned 55
C1_Witness ==
    fibArg = <<10>> /\ ret = <<55>> /\ stack = <<>>

\* C3, as stated: a call of fib with a negative operand never returns a value.
C3_NegativeNeverReturns ==
    (fibArg # <<>> /\ fibArg[1] < 0) => ret = <<>>

\* C3, amended: a call of fib with a negative operand n does not recurse (the
\* test n <= 1 holds, so there is never more than the one frame, and no
\* stack exhaustion), and the value it returns is n itself.
C3_NegativeReturnsOperand ==
    (fibArg # <<>> /\ fibArg[1] < 0) =>
        /\ Len(stack) <= 1
        /\ pc # "error"
        /\ (stack # <<>> => Top.n = fibArg[1] /\ Top.at \in {"L3", "L4"})
        /\ (ret # <<>> => ret = fibArg)

\* fib(-3) has returned -3
C3_Witness ==
    fibArg = <<0 - 3>> /\ ret = <<0 - 3>> /\ stack = <<>>

\* C10: while fib(n) is evaluated for n >= 1, every recursive call's operand is
\* non-negative and strictly smaller than its caller's, there are never more
\* than n active frames (and one only for n = 1), and no frame ever has a
\* negative operand.
C10_RecursionDescends ==
    (fibArg # <<>> /\ fibArg[1] >= 1) =>
        /\ Len(stack) <= fibArg[1]
        /\ \A i \in 1..Len(stack) : stack[i].n >= 0
        /\ \A i \in 2..Len(stack) : stack[i].n < stack[i - 1].n
        /\ stack # <<>> => stack[1].n = fibArg[1]
        /\ (fibArg[1] <= 1 /\ stack # <<>>) => Len(stack) = 1
        /\ pc # "error"

\* the evaluation of fib(10) is 10 frames deep, the innermost one fib(1)
C10_Witness ==
    fibArg = <<10>> /\ Len(stack) = 10 /\ Top.n = 1

---------------------------------------------------------------------------
(* Properties of the comprehension and of the filter, checked under        *)
(* SpecSeq.                                                                *)

\* C4: for every list numbers, doubled has the length of numbers and its
\* element at every index i is 2 * numbers[i]; for [1, 2, 3, 4, 5] it is
\* [2, 4, 6, 8, 10].
C4_DoubledIsTwice ==
    "doubled" \in bound =>
        /\ Len(doubled) = Len(numbers)
        /\ \A i \in 1..Len(numbers) : doubled[i] = 2 * numbers[i]
        /\ (numbers = <<1, 2, 3, 4, 5>> => doubled = <<2, 4, 6, 8, 10>>)

\* a list with a negative element and a repeated one has been doubled
C4_Witness ==
    "doubled" \in bound /\ numbers = <<0 - 2, 1, 1>> /\ doubled = <<0 - 4, 2, 2>>

\* x is a multiple of 2
DivisibleByTwo(x) == \E k \in (0 - 10)..10 : x = 2 * k

\* C5: for every list numbers, evens is exactly the subsequence of the
\* elements of numbers divisible by 2, in their order and with their
\* multiplicity; for [1, 2, 3, 4, 5] it is [2, 4].
C5_EvensIsEvenSubsequence ==
    "evens" \in bound =>
        /\ evens = SelectSeq(numbers, DivisibleByTwo)
        /\ (numbers = <<1, 2, 3, 4, 5>> => evens = <<2, 4>>)

\* a list with a repeated negative even element and an odd one between
C5_Witness ==
    "evens" \in bound /\ numbers = <<0 - 2, 1, 0 - 2>> /\ evens = <<0 - 2, 0 - 2>>

---------------------------------------------------------------------------
(* Properties of the class User, checked under SpecUser.                   *)

\* C7: for every name and age, the constructed user holds exactly the two
\* operands, unchanged, and greet() returns "Hello, " then the name then "!",
\* whatever the age; for ("Nina", 25) it is "Hello, Nina!".
C7_UserStoresAndGreets ==
    /\ "user" \in bound =>
          user = << <<"name", ctorArgs[1].name>>, <<"age", ctorArgs[1].age>> >>
    /\ greeting # <<>> =>
          /\ greeting = <<"Hello, " \o ctorArgs[1].name \o "!">>
          /\ (ctorArgs[1].name = "Nina" => greeting = <<"Hello, Nina!">>)

\* an empty name and a negative age were accepted, and the user has greeted
C7_Witness ==
    /\ "user" \in bound
    /\ ctorArgs = <<[name |-> "", age |-> 0 - 1]>>
    /\ greeting = <<"Hello, !">>

---------------------------------------------------------------------------
(* Properties of the script as written, checked under Spec and FairSpec.   *)

ExpectedOutput ==
    << "fib(10) = 55",
       "Doubled: [2, 4, 6, 8, 10]",
       "Hello, Nina!",
       "Squares: {1: 1, 2: 4, 3: 9, 4: 16, 5: 25}",
       "Evens: [2, 4]" >>

IsPrefix(s, t) ==
    /\ Len(s) <= Len(t)
    /\ \A i \in 1..Len(s) : s[i] = t[i]

\* C2: at every point of the run the lines written so far are a prefix of the
\* five expected lines, and at the end of the script they are exactly these
\* five lines, in this order.
C2_OutputIsTheFiveLines ==
    /\ IsPrefix(out, ExpectedOutput)
    /\ pc = "done" => out = ExpectedOutput

\* the script has ended with five lines written
C2_Witness ==
    pc = "done" /\ Len(out) = 5

\* C6: squares has exactly the keys 1..5, inserted in increasing order, each
\* key k mapped to k * k; 0 and 6 are no keys.
C6_SquaresMapping ==
    /\ pc = "L27for" => Keys(dacc) = [i \in 1..(it - 1) |-> i]
    /\ "squares" \in bound =>
          /\ Keys(squares) = <<1, 2, 3, 4, 5>>
          /\ \A i \in 1..Len(squares) : squares[i][2] = squares[i][1] * squares[i][1]
          /\ {squares[i][1] : i \in 1..Len(squares)} = {1, 2, 3, 4, 5}
          /\ ~HasKey(squares, 0) /\ ~HasKey(squares, 6)
          /\ DictGet(squares, 5) = 25

\* the finished mapping is bound to squares
C6_Witness ==
    "squares" \in bound /\ Len(squares) = 5 /\ pc = "L28"

\* C8: once bound, numbers is [1, 2, 3, 4, 5] and the user's name is "Nina"
\* and its age 25 until the script ends, and no step changes the value of a
\* bound numbers, doubled, user or squares, or unbinds a name.
C8_NoMutationAfterCreation ==
    /\ []("numbers" \in bound => numbers = <<1, 2, 3, 4, 5>>)
    /\ []("user" \in bound =>
             DictGet(user, "name") = "Nina" /\ DictGet(user, "age") = 25)
    /\ [][ /\ bound \subseteq bound'
           /\ "numbers" \in bound => numbers' = numbers
           /\ "doubled" \in bound => doubled' = doubled
           /\ "user" \in bound => user' = user
           /\ "squares" \in bound => squares' = squares ]_vars

\* the script has ended with every name bound
C8_Witness ==
    /\ pc = "done"
    /\ bound = {"numbers", "doubled", "user", "squares", "evens"}
    /\ numbers = <<1, 2, 3, 4, 5>>

\* the statements in the order the script runs them
ScriptOrder ==
    << "L7", "L10", "L11", "L11for", "L12", "L23", "L17", "L18", "L23bind",
       "L24", "L27", "L27for", "L28", "L31", "L31for", "L32", "done" >>

Position(l) == CHOOSE i \in 1..Len(ScriptOrder) : ScriptOrder[i] = l

\* C9: every run reaches the end of the script, with the five lines written
\* and fib(10) returned; no statement raises, and the statements run in the
\* script's order, none of them a second time.
C9_ScriptTerminates ==
    /\ <>(pc = "done" /\ Len(out) = 5 /\ ret # <<>> /\ stack = <<>>)
    /\ [](pc \in {ScriptOrder[i] : i \in 1..Len(ScriptOrder)})
    /\ [][pc' # pc => Position(pc') = Position(pc) + 1]_vars

\* the end of the script, after the call of fib has returned
C9_Witness ==
    pc = "done" /\ ret = <<55>> /\ stack = <<>> /\ Len(out) = 5

====
